---- MODULE Spec2Model ----
(***************************************************************************)
(* SheetPlotter: the coordinate extraction pipeline of src/App.tsx         *)
(* (cleanAndParse, processPoints, handleFetch, handleApplyStyle,           *)
(* updateMapping, swapMapping) and the column mapping resolver of the      *)
(* Gemini service (identifyColumns, fallbackMapping, getSheetInsights).    *)
(*                                                                         *)
(* Text is a sequence of one-character strings.  A number is a record      *)
(* [neg, ip, fr]: sign flag, integer part, and the fractional digits with  *)
(* trailing zeros removed, which is exact for the short decimal literals    *)
(* the model reads (parseFloat of such a literal compares with 0, 90 and   *)
(* 180 and with other short literals as the decimal value does).           *)
(***************************************************************************)
EXTENDS Integers, Sequences, FiniteSets, TLC

(***************************************************************************)
(* Bounds of the model.                                                    *)
(***************************************************************************)
MaxLen == 4
MaxRows == 2
MaxPoolRows == 1
MaxLoads == 2

(***************************************************************************)
(* JavaScript values.                                                      *)
(***************************************************************************)
NULL == [tag |-> "null"]

\* the text String(undefined), read from a row that lacks the column
UndefinedText == <<"u", "n", "d", "e", "f", "i", "n", "e", "d">>

\* the value undefined as a column name (headers[i] beyond the list)
UNDEFINED == <<"\\undefined">>

LowerChars == <<"a", "b", "c", "d", "e", "f", "g", "h", "i", "j", "k", "l", "m", "n", "o", "p", "q", "r", "s", "t", "u", "v", "w", "x", "y", "z">>

UpperChars == <<"A", "B", "C", "D", "E", "F", "G", "H", "I", "J", "K", "L", "M", "N", "O", "P", "Q", "R", "S", "T", "U", "V", "W", "X", "Y", "Z">>

Digits == <<"0", "1", "2", "3", "4", "5", "6", "7", "8", "9">>

IsDigit(c) == \E i \in 1..10 : Digits[i] = c

DigitVal(c) == (CHOOSE i \in 1..10 : Digits[i] = c) - 1

ToUpperChar(c) ==
  IF \E i \in 1..26 : LowerChars[i] = c
  THEN UpperChars[CHOOSE i \in 1..26 : LowerChars[i] = c]
  ELSE c

ToLowerChar(c) ==
  IF \E i \in 1..26 : UpperChars[i] = c
  THEN LowerChars[CHOOSE i \in 1..26 : UpperChars[i] = c]
  ELSE c

toUpperCase(s) == [i \in 1..Len(s) |-> ToUpperChar(s[i])]

toLowerCase(s) == [i \in 1..Len(s) |-> ToLowerChar(s[i])]

IsSpace(c) == c = " "

\* String.prototype.trim
trim(s) ==
  IF \A i \in 1..Len(s) : IsSpace(s[i])
  THEN <<>>
  ELSE LET a == CHOOSE i \in 1..Len(s) :
                  /\ ~IsSpace(s[i])
                  /\ \A j \in 1..(i - 1) : IsSpace(s[j])
           b == CHOOSE i \in 1..Len(s) :
                  /\ ~IsSpace(s[i])
                  /\ \A j \in (i + 1)..Len(s) : IsSpace(s[j])
       IN SubSeq(s, a, b)

\* String.prototype.includes
includes(s, sub) ==
  \E i \in 0..(Len(s) - Len(sub)) : SubSeq(s, i + 1, i + Len(sub)) = sub

\* String.prototype.startsWith
startsWith(s, pre) == Len(s) >= Len(pre) /\ SubSeq(s, 1, Len(pre)) = pre

\* (s.match(/,/g) || []).length
commaCount(s) == Cardinality({i \in 1..Len(s) : s[i] = ","})

\* s.replace(',', '.'): rewrites the first comma only
replaceFirstComma(s) ==
  IF \E i \in 1..Len(s) : s[i] = ","
  THEN LET k == CHOOSE i \in 1..Len(s) :
                  s[i] = "," /\ \A j \in 1..(i - 1) : s[j] # ","
       IN [i \in 1..Len(s) |-> IF i = k THEN "." ELSE s[i]]
  ELSE s

IsNumericChar(c) == IsDigit(c) \/ c = "." \/ c = "-"

\* s.replace(/[^0-9.-]/g, '')
stripNonNumeric(s) == SelectSeq(s, IsNumericChar)

\* number of leading digits of s from position i
RECURSIVE DigitRun(_, _)
DigitRun(s, i) ==
  IF i <= Len(s) /\ IsDigit(s[i]) THEN 1 + DigitRun(s, i + 1) ELSE 0

RECURSIVE DigitsToNat(_)
DigitsToNat(d) ==
  IF d = <<>> THEN 0
  ELSE 10 * DigitsToNat(SubSeq(d, 1, Len(d) - 1)) + DigitVal(d[Len(d)])

RECURSIVE StripTrailingZeros(_)
StripTrailingZeros(d) ==
  IF d # <<>> /\ d[Len(d)] = "0"
  THEN StripTrailingZeros(SubSeq(d, 1, Len(d) - 1))
  ELSE d

\* parseFloat on a text of digits, periods and minus signs: an optional
\* leading minus, digits, an optional period and digits; reading stops at the
\* first character that does not continue the literal; NULL stands for NaN
parseFloat(s) ==
  LET neg == Len(s) >= 1 /\ s[1] = "-"
      p0 == IF neg THEN 2 ELSE 1
      ni == DigitRun(s, p0)
      p1 == p0 + ni
      dot == p1 <= Len(s) /\ s[p1] = "."
      nf == IF dot THEN DigitRun(s, p1 + 1) ELSE 0
  IN IF ni = 0 /\ nf = 0 THEN NULL
     ELSE [neg |-> neg,
           ip |-> DigitsToNat(SubSeq(s, p0, p1 - 1)),
           fr |-> StripTrailingZeros(SubSeq(s, p1 + 1, p1 + nf))]

\* Math.abs
abs(n) == [n EXCEPT !.neg = FALSE]

\* unary minus
negate(n) == [n EXCEPT !.neg = ~n.neg]

\* n === 0 (both zeros are equal to 0)
IsZero(n) == n.ip = 0 /\ n.fr = <<>>

\* a <= k for an integer k >= 0
LeqInt(n, k) == n.neg \/ IsZero(n) \/ n.ip < k \/ (n.ip = k /\ n.fr = <<>>)

\* a >= -k for an integer k >= 0
GeqNegInt(n, k) == ~n.neg \/ IsZero(n) \/ n.ip < k \/ (n.ip = k /\ n.fr = <<>>)

isNegativeText(s) ==
  includes(s, <<"S">>) \/ includes(s, <<"W">>) \/ startsWith(s, <<"-">>)

\* localeNormalize without the test commaCount === 1
localeNormalizeAnyCount(s) ==
  IF includes(s, <<",">>) /\ ~includes(s, <<".">>) THEN replaceFirstComma(s) ELSE s

localeNormalize(s) ==
  IF includes(s, <<",">>) /\ ~includes(s, <<".">>)
  THEN IF commaCount(s) = 1 THEN replaceFirstComma(s) ELSE s
  ELSE s

\* signAdjust returning num as parsed when the text is not marked negative
signAdjustKeepSign(isNegative, num) == IF isNegative THEN negate(abs(num)) ELSE num

signAdjust(isNegative, num) == IF isNegative THEN negate(abs(num)) ELSE abs(num)

\* s and num are bound as the element of a one-element set, so that each is
\* computed once however often it is read
cleanAndParse(val) ==
  CHOOSE r \in
    {IF s = <<>> THEN NULL
     ELSE LET isNegative == isNegativeText(s)
              cleaned == stripNonNumeric(localeNormalize(s))
          IN CHOOSE n \in
               {IF num = NULL THEN NULL ELSE signAdjust(isNegative, num) :
                  num \in {parseFloat(cleaned)}} : TRUE :
       s \in {toUpperCase(trim(val))}} : TRUE

(***************************************************************************)
(* processPoints (src/App.tsx).                                            *)
(***************************************************************************)
Range(f) == {f[i] : i \in DOMAIN f}

\* a column name that is falsy in JavaScript: '' or undefined
Falsy(col) == col = <<>> \/ col = UNDEFINED

\* String(row[column]): a row that lacks the column gives "undefined"
CellText(row, col) == IF col \in DOMAIN row THEN row[col] ELSE UndefinedText

IsDelimiter(c) == c = "," \/ c = ";"

\* split(',') instead of split(/[,;]/)
RECURSIVE splitOnComma(_)
splitOnComma(s) ==
  IF \E i \in 1..Len(s) : s[i] = ","
  THEN LET k == CHOOSE i \in 1..Len(s) : s[i] = "," /\ \A j \in 1..(i - 1) : s[j] # ","
       IN <<SubSeq(s, 1, k - 1)>> \o splitOnComma(SubSeq(s, k + 1, Len(s)))
  ELSE <<s>>

\* combined.split(/[,;]/)
RECURSIVE split(_)
split(s) ==
  IF \E i \in 1..Len(s) : IsDelimiter(s[i])
  THEN LET k == CHOOSE i \in 1..Len(s) :
                  IsDelimiter(s[i]) /\ \A j \in 1..(i - 1) : ~IsDelimiter(s[j])
       IN <<SubSeq(s, 1, k - 1)>> \o split(SubSeq(s, k + 1, Len(s)))
  ELSE <<s>>

\* the pair the row is read as; NULL where the code leaves lat or lng null
rowCoordinates(row, mapping) ==
  IF mapping.latColumn = mapping.lngColumn
  THEN CHOOSE c \in
         {CHOOSE d \in
            {IF Len(parts) >= 2
             THEN [lat |-> cleanAndParse(parts[1]), lng |-> cleanAndParse(parts[2])]
             ELSE [lat |-> NULL, lng |-> NULL] :
               parts \in {split(combined)}} : TRUE :
            combined \in {CellText(row, mapping.latColumn)}} : TRUE
  ELSE [lat |-> cleanAndParse(CellText(row, mapping.latColumn)),
        lng |-> cleanAndParse(CellText(row, mapping.lngColumn))]

\* inRange without the test lat <= 90
inRangeNoLatCeiling(lat, lng) ==
  /\ lat # NULL
  /\ lng # NULL
  /\ GeqNegInt(lat, 90)
  /\ GeqNegInt(lng, 180)
  /\ LeqInt(lng, 180)
  /\ (~IsZero(lat) \/ ~IsZero(lng))

\* inRange with the origin test written lat !== 0 && lng !== 0
inRangeBothNonZero(lat, lng) ==
  /\ lat # NULL
  /\ lng # NULL
  /\ GeqNegInt(lat, 90)
  /\ LeqInt(lat, 90)
  /\ GeqNegInt(lng, 180)
  /\ LeqInt(lng, 180)
  /\ (~IsZero(lat) /\ ~IsZero(lng))

\* the condition of the push in processPoints
inRange(lat, lng) ==
  /\ lat # NULL
  /\ lng # NULL
  /\ GeqNegInt(lat, 90)
  /\ LeqInt(lat, 90)
  /\ GeqNegInt(lng, 180)
  /\ LeqInt(lng, 180)
  /\ (~IsZero(lat) \/ ~IsZero(lng))

\* validPoints.unshift
unshiftPoint(validPoints, p) == <<p>> \o validPoints

\* validPoints.push
pushPoint(validPoints, p) == Append(validPoints, p)

RECURSIVE forEachRow(_, _, _)
forEachRow(rows, mapping, validPoints) ==
  IF rows = <<>> THEN validPoints
  ELSE CHOOSE r \in
         {forEachRow(Tail(rows), mapping, next) :
            next \in {CHOOSE v \in
                        {IF inRange(c.lat, c.lng)
                         THEN pushPoint(validPoints, [lat |-> c.lat, lng |-> c.lng, data |-> Head(rows)])
                         ELSE validPoints :
                           c \in {rowCoordinates(Head(rows), mapping)}} : TRUE}} : TRUE

unconfigured(mapping) ==
  mapping = NULL \/ Falsy(mapping.latColumn) \/ Falsy(mapping.lngColumn)

processPoints(rows, mapping) ==
  CHOOSE r \in
    {IF unconfigured(m) THEN <<>> ELSE forEachRow(rs, m, <<>>) :
       rs \in {rows}, m \in {mapping}} : TRUE

(***************************************************************************)
(* fallbackMapping (Gemini service).                                       *)
(***************************************************************************)
\* headers.find(h => ...): the first header among the positions hits where
\* the callback is true, else undefined
find(headers, hits) ==
  IF hits # {}
  THEN headers[CHOOSE i \in hits : \A j \in hits : i <= j]
  ELSE UNDEFINED

\* headers[i] with i counted from 0
headerAt(headers, i) == IF i + 1 <= Len(headers) THEN headers[i + 1] ELSE UNDEFINED

isCoordsName(l) ==
  \/ l = <<"c", "o", "o", "r", "d", "i", "n", "a", "t", "e", "s">>
  \/ l = <<"c", "o", "o", "r", "d", "s">>

isLatHeader(h) ==
  LET l == toLowerCase(h)
  IN includes(l, <<"l", "a", "t">>) \/ includes(l, <<"y">>) \/ isCoordsName(l)

isLngHeader(h) ==
  LET l == toLowerCase(h)
  IN \/ includes(l, <<"l", "n", "g">>)
     \/ includes(l, <<"l", "o", "n", "g">>)
     \/ includes(l, <<"x">>)
     \/ isCoordsName(l)

\* a || b
orElse(a, b) == IF Falsy(a) THEN b ELSE a

\* fallbackMapping with headers[0] as the default of both sides
fallbackMappingFirstHeader(headers) ==
  [latColumn |-> orElse(find(headers, {i \in 1..Len(headers) : isLatHeader(headers[i])}), headerAt(headers, 0)),
   lngColumn |-> orElse(find(headers, {i \in 1..Len(headers) : isLngHeader(headers[i])}), headerAt(headers, 0))]

fallbackMapping(headers) ==
  [latColumn |-> orElse(find(headers, {i \in 1..Len(headers) : isLatHeader(headers[i])}), headerAt(headers, 0)),
   lngColumn |-> orElse(find(headers, {i \in 1..Len(headers) : isLngHeader(headers[i])}), headerAt(headers, 1))]

(***************************************************************************)
(* The color assignment of handleApplyStyle (src/App.tsx).                 *)
(***************************************************************************)
PALETTE == <<"#ef4444", "#3b82f6", "#10b981", "#f59e0b", "#8b5cf6", "#ec4899", "#06b6d4", "#f97316", "#6366f1", "#14b8a6">>

\* Array.from(new Set(values)): the distinct values in first-occurrence order
RECURSIVE uniqueValues(_, _)
uniqueValues(values, seen) ==
  IF values = <<>> THEN seen
  ELSE uniqueValues(Tail(values),
         IF Head(values) \in Range(seen) THEN seen ELSE Append(seen, Head(values)))

columnValues(rows, columnName) == [i \in 1..Len(rows) |-> CellText(rows[i], columnName)]

\* the last color for every index beyond the palette, without the modulo
paletteColorClamped(idx) == PALETTE[IF idx < Len(PALETTE) THEN idx + 1 ELSE Len(PALETTE)]

\* PALETTE[idx % PALETTE.length] with idx counted from 0
paletteColor(idx) == PALETTE[(idx % Len(PALETTE)) + 1]

buildColorMap(rows, columnName) ==
  LET u == uniqueValues(columnValues(rows, columnName), <<>>)
  IN [v \in Range(u) |-> paletteColor((CHOOSE i \in 1..Len(u) : u[i] = v) - 1)]

(***************************************************************************)
(* The tables fetchGoogleSheetData can deliver: a header list and rows     *)
(* keyed by exactly these headers, every cell a text.                      *)
(***************************************************************************)
\* the row whose i-th header has the i-th cell
MkRow(headers, cells) ==
  [h \in Range(headers) |-> cells[CHOOSE i \in 1..Len(headers) : headers[i] = h]]

MkTable(headers, cellRows) ==
  [headers |-> headers,
   rows |-> [i \in 1..Len(cellRows) |-> MkRow(headers, cellRows[i])]]

RECURSIVE SeqsUpTo(_, _)
SeqsUpTo(S, n) ==
  IF n = 0 THEN {<<>>}
  ELSE LET shorter == SeqsUpTo(S, n - 1)
       IN shorter \cup {Append(q, x) : q \in shorter, x \in S}

HeadersAB == <<<<"A">>, <<"B">>>>

HeadersLatLng == <<<<"l", "a", "t">>, <<"l", "n", "g">>>>

\* the rows the tables over HeadersAB are composed of
PoolRows ==
  {<<<<"0", ";", "0">>, <<"0", ";", "9">>>>}

PoolTables == {MkTable(HeadersAB, cr) : cr \in SeqsUpTo(PoolRows, MaxPoolRows)}

\* more distinct texts in column "lng" than PALETTE has colors
ElevenTable ==
  MkTable(HeadersLatLng,
    <<<<<<"1">>, <<"1", "0">>>>,
      <<<<"2">>, <<"2", "0">>>>,
      <<<<"3">>, <<"3", "0">>>>,
      <<<<"4">>, <<"4", "0">>>>,
      <<<<"5">>, <<"5", "0">>>>,
      <<<<"6">>, <<"6", "0">>>>,
      <<<<"7">>, <<"7", "0">>>>,
      <<<<"8">>, <<"8", "0">>>>,
      <<<<"9">>, <<"9", "0">>>>,
      <<<<"1", "0">>, <<"1", "0", "0">>>>,
      <<<<"1", "1">>, <<"1", "1", "0">>>>>>)

OneColumnTable == MkTable(<<<<"A">>>>, <<<<<<"1", ";", "2">>>>>>)

Tables == PoolTables \cup {ElevenTable, OneColumnTable}

\* the values JSON.parse(response.text) can give in identifyColumns: null, or
\* an object whose two names are headers or a name no header has
BogusColumn == <<"Z">>

HintColumns(headers) == Range(headers) \cup {BogusColumn}

Hints(headers) ==
  {NULL} \cup [latColumn : HintColumns(headers), lngColumn : HintColumns(headers)]

(***************************************************************************)
(* The component state of App (src/App.tsx).  call holds one application   *)
(* of a function of the pipeline to given arguments; the component itself  *)
(* leaves it idle.                                                         *)
(***************************************************************************)
VARIABLES state, insights, loads, nLoads, apiKey, call

vars == <<state, insights, loads, nLoads, apiKey, call>>

\* activeColumn: null
NoColumn == <<"\\null">>

NoStyle == [activeColumn |-> NoColumn, rule |-> NULL]

Idle == [fn |-> "none"]

InitialState ==
  [isLoading |-> FALSE,
   error |-> NULL,
   sheetData |-> <<>>,
   headers |-> <<>>,
   mapping |-> NULL,
   points |-> <<>>,
   styleConfig |-> NoStyle]

Init ==
  /\ state = InitialState
  /\ insights = NULL
  /\ loads = {}
  /\ nLoads = 0
  /\ apiKey \in BOOLEAN
  /\ call = Idle

\* handleFetch whose first setState leaves points and sheetData as they are
handleFetchKeepRows ==
  /\ ~state.isLoading
  /\ nLoads < MaxLoads
  /\ state' = [state EXCEPT !.isLoading = TRUE, !.error = NULL, !.mapping = NULL]
  /\ insights' = NULL
  /\ nLoads' = nLoads + 1
  /\ loads' = loads \cup {[id |-> nLoads + 1, pc |-> "fetch", headers |-> <<>>, rows |-> <<>>]}
  /\ UNCHANGED <<apiKey, call>>

\* handleFetch up to its first await; the Visualize button is disabled while
\* state.isLoading, and the mount effect runs it in the initial state
handleFetch ==
  /\ ~state.isLoading
  /\ nLoads < MaxLoads
  /\ state' = [state EXCEPT !.isLoading = TRUE, !.error = NULL, !.points = <<>>,
                            !.sheetData = <<>>, !.mapping = NULL]
  /\ insights' = NULL
  /\ nLoads' = nLoads + 1
  /\ loads' = loads \cup {[id |-> nLoads + 1, pc |-> "fetch", headers |-> <<>>, rows |-> <<>>]}
  /\ UNCHANGED <<apiKey, call>>

\* await fetchGoogleSheetData(targetUrl) resolves
fetchResolved(l, table) ==
  /\ l.pc = "fetch"
  /\ loads' = (loads \ {l}) \cup
       {[l EXCEPT !.pc = "identify", !.headers = table.headers, !.rows = table.rows]}
  /\ UNCHANGED <<state, insights, nLoads, apiKey, call>>

\* await fetchGoogleSheetData(targetUrl) rejects: the catch of handleFetch
fetchRejected(l) ==
  /\ l.pc = "fetch"
  /\ state' = [state EXCEPT !.isLoading = FALSE, !.error = [message |-> "fetch failed"]]
  /\ loads' = loads \ {l}
  /\ UNCHANGED <<insights, nLoads, apiKey, call>>

\* handleFetch from the value of identifyColumns to the call of
\* getSheetInsights.  Without an API key getSheetInsights returns its text
\* without awaiting anything, so setInsights runs in the same turn; with a key
\* the text arrives with the response of the service
completeLoad(l, mapping) ==
  /\ state' = [state EXCEPT !.isLoading = FALSE,
                            !.error = NULL,
                            !.sheetData = l.rows,
                            !.headers = l.headers,
                            !.mapping = mapping,
                            !.points = processPoints(l.rows, mapping)]
  /\ IF apiKey
     THEN /\ loads' = (loads \ {l}) \cup
               {[l EXCEPT !.pc = "insights", !.headers = <<>>, !.rows = <<>>]}
          /\ UNCHANGED insights
     ELSE /\ loads' = loads \ {l}
          /\ insights' = [load |-> l.id]
  /\ UNCHANGED <<nLoads, apiKey, call>>

\* the value identifyColumns returns for the parsed response text
hintMapping(headers, hint) == hint

\* identifyColumns without an API key
identifyNoKey(l) ==
  /\ l.pc = "identify"
  /\ ~apiKey
  /\ completeLoad(l, fallbackMapping(l.headers))

\* identifyColumns returns JSON.parse(response.text) as ColumnMapping
identifyHint(l, hint) ==
  /\ l.pc = "identify"
  /\ apiKey
  /\ completeLoad(l, hintMapping(l.headers, hint))

\* identifyFailed with the exception reaching the catch of handleFetch
identifyFailedSurfaced(l) ==
  /\ l.pc = "identify"
  /\ apiKey
  /\ state' = [state EXCEPT !.isLoading = FALSE, !.error = [message |-> "inference failed"]]
  /\ loads' = loads \ {l}
  /\ UNCHANGED <<insights, nLoads, apiKey, call>>

\* generateContent or JSON.parse throws: the catch of identifyColumns
identifyFailed(l) ==
  /\ l.pc = "identify"
  /\ apiKey
  /\ completeLoad(l, fallbackMapping(l.headers))

\* getSheetInsights(rows).then(setInsights) with a key: the response (or the
\* text of the catch) arrives; the text is recorded with the load whose rows
\* it was computed from
insightsResolved(l) ==
  /\ l.pc = "insights"
  /\ insights' = [load |-> l.id]
  /\ loads' = loads \ {l}
  /\ UNCHANGED <<state, nLoads, apiKey, call>>

\* the configuration panels are rendered while state.sheetData.length > 0
panelsShown == Len(state.sheetData) > 0

\* appliedStyle without the early return for the empty column
appliedStyleNoClear(rows, columnName) ==
  [activeColumn |-> columnName,
   rule |-> [column |-> columnName,
             type |-> "categorical",
             colorMap |-> buildColorMap(rows, columnName)]]

\* the styleConfig handleApplyStyle sets
appliedStyle(rows, columnName) ==
  IF columnName = <<>>
  THEN NoStyle
  ELSE [activeColumn |-> columnName,
        rule |-> [column |-> columnName,
                  type |-> "categorical",
                  colorMap |-> buildColorMap(rows, columnName)]]

handleApplyStyle(columnName) ==
  /\ panelsShown
  /\ state' = [state EXCEPT !.styleConfig = appliedStyle(state.sheetData, columnName)]
  /\ UNCHANGED <<insights, loads, nLoads, apiKey, call>>

\* editedMapping starting from the chosen column on both sides
editedMappingBoth(prev, type, column) ==
  LET base == IF prev # NULL THEN prev ELSE [latColumn |-> column, lngColumn |-> column]
  IN IF type = "lat" THEN [base EXCEPT !.latColumn = column]
     ELSE [base EXCEPT !.lngColumn = column]

\* the mapping object updateMapping builds from prev.mapping
editedMapping(prev, type, column) ==
  LET base == IF prev # NULL THEN prev ELSE [latColumn |-> <<>>, lngColumn |-> <<>>]
  IN IF type = "lat" THEN [base EXCEPT !.latColumn = column]
     ELSE [base EXCEPT !.lngColumn = column]

\* updateMapping storing the mapping without resolving the points again
updateMappingStale(type, column) ==
  /\ panelsShown
  /\ state' = [state EXCEPT !.mapping = editedMapping(state.mapping, type, column)]
  /\ UNCHANGED <<insights, loads, nLoads, apiKey, call>>

updateMapping(type, column) ==
  /\ panelsShown
  /\ LET newMapping == editedMapping(state.mapping, type, column)
     IN state' = [state EXCEPT !.mapping = newMapping,
                               !.points = processPoints(state.sheetData, newMapping)]
  /\ UNCHANGED <<insights, loads, nLoads, apiKey, call>>

swappedMapping(prev) == [latColumn |-> prev.lngColumn, lngColumn |-> prev.latColumn]

swapMapping ==
  /\ panelsShown
  /\ state.mapping # NULL
  /\ LET newMapping == swappedMapping(state.mapping)
     IN state' = [state EXCEPT !.mapping = newMapping,
                               !.points = processPoints(state.sheetData, newMapping)]
  /\ UNCHANGED <<insights, loads, nLoads, apiKey, call>>

Next ==
  \/ handleFetch
  \/ \E l \in loads : \E table \in Tables : fetchResolved(l, table)
  \/ \E l \in loads : fetchRejected(l)
  \/ \E l \in loads : identifyNoKey(l)
  \/ \E l \in loads : \E hint \in Hints(l.headers) : identifyHint(l, hint)
  \/ \E l \in loads : identifyFailed(l)
  \/ \E l \in loads : insightsResolved(l)
  \/ \E columnName \in Range(state.headers) \cup {<<>>} : handleApplyStyle(columnName)
  \/ \E type \in {"lat", "lng"} : \E column \in Range(state.headers) : updateMapping(type, column)
  \/ swapMapping

Spec == Init /\ [][Next]_vars

\* the steps that do not wait for the inference service or the user: the
\* table request settles, and identifyColumns without a key returns at once
fetchSettles ==
  \/ \E l \in loads : \E table \in Tables : fetchResolved(l, table)
  \/ \E l \in loads : fetchRejected(l)

identifyLocally == \E l \in loads : identifyNoKey(l)

SpecLive == Spec /\ WF_vars(fetchSettles) /\ WF_vars(identifyLocally)

\* getMarkerColor of MapDisplay
DEFAULT_COLOR == "#4f46e5"

getMarkerColor(point, styleConfig) ==
  IF styleConfig.activeColumn = NoColumn \/ styleConfig.activeColumn = <<>>
       \/ styleConfig.rule = NULL
  THEN DEFAULT_COLOR
  ELSE LET value == CellText(point.data, styleConfig.activeColumn)
       IN IF value \in DOMAIN styleConfig.rule.colorMap
          THEN styleConfig.rule.colorMap[value]
          ELSE DEFAULT_COLOR

(***************************************************************************)
(* The functions of the pipeline applied to arguments drawn from bounded    *)
(* sets, the component left in its initial state.                          *)
(***************************************************************************)
ComponentIdle ==
  /\ state = InitialState
  /\ insights = NULL
  /\ loads = {}
  /\ nLoads = 0
  /\ apiKey = FALSE

\* cell texts: every text of at most MaxLen characters over Alphabet, and the
\* texts of the documented examples
Alphabet == {"0", "1", ".", ",", "-", "s", "a", " "}

ExampleTexts ==
  {<<"4", "8", ",", "8", "5">>,
   <<"S", "4", "8", ".", "8", "5">>,
   <<"4", "8", ",", "8", "5", ",", "1", "2">>,
   <<"4", "8", "8", "5">>,
   <<"-", "7", "4", ".", "0">>,
   <<"1", "2", " ", "W">>,
   <<"1", ".", "5", ",", "2">>,
   <<"a", "-", "5">>}

Texts == SeqsUpTo(Alphabet, MaxLen) \cup ExampleTexts

InitParse ==
  /\ ComponentIdle
  /\ \E t \in Texts : call = [fn |-> "cleanAndParse", arg |-> t, done |-> FALSE, result |-> NULL]

callCleanAndParse ==
  /\ call.fn = "cleanAndParse"
  /\ ~call.done
  /\ call' = [call EXCEPT !.done = TRUE, !.result = cleanAndParse(call.arg)]
  /\ UNCHANGED <<state, insights, loads, nLoads, apiKey>>

NextParse == callCleanAndParse

SpecParse == InitParse /\ [][NextParse]_vars

\* rows over the headers "lat" and "lng" and the mappings they are resolved with
HeaderLat == <<"l", "a", "t">>

HeaderLng == <<"l", "n", "g">>

CatalogueRows ==
  {<<<<"4", "0", ".", "7", ";", "-", "7", "4", ".", "0">>, <<"5">>>>,
   <<<<"4", "0", ".", "7", ",", "-", "7", "4", ".", "0", ",", "9">>, <<"5">>>>,
   <<<<"0">>, <<"1", "8", "0">>>>,
   <<<<"0">>, <<"0">>>>,
   <<<<"0", ",", "0">>, <<"0", ";", "0">>>>,
   <<<<"9", "0">>, <<"1", "8", "0">>>>,
   <<<<"-", "9", "0">>, <<"-", "1", "8", "0">>>>,
   <<<<"9", "1">>, <<"1", "0">>>>,
   <<<<"1", "0">>, <<"1", "8", "1">>>>,
   <<<<"9", "0", ".", "5">>, <<"1">>>>,
   <<<<>>, <<"1">>>>,
   <<<<"S", "4", "8", ".", "8", "5">>, <<"W", "2">>>>,
   <<<<"4", "8", ",", "8", "5">>, <<"2", ",", "3", "5">>>>,
   <<<<"1", ";">>, <<";", "2">>>>}

RowSeqs ==
  {[i \in 1..Len(cr) |-> MkRow(<<HeaderLat, HeaderLng>>, cr[i])] : cr \in SeqsUpTo(CatalogueRows, MaxRows)}

MappingColumns == {HeaderLat, HeaderLng, BogusColumn, <<>>, UNDEFINED}

Mappings == {NULL} \cup [latColumn : MappingColumns, lngColumn : MappingColumns]

InitPoints ==
  /\ ComponentIdle
  /\ \E rows \in RowSeqs : \E mapping \in Mappings :
       call = [fn |-> "processPoints", rows |-> rows, mapping |-> mapping,
               done |-> FALSE, result |-> <<>>]

callProcessPoints ==
  /\ call.fn = "processPoints"
  /\ ~call.done
  /\ call' = [call EXCEPT !.done = TRUE, !.result = processPoints(call.rows, call.mapping)]
  /\ UNCHANGED <<state, insights, loads, nLoads, apiKey>>

NextPoints == callProcessPoints

SpecPoints == InitPoints /\ [][NextPoints]_vars

\* header lists of at most MaxHeaders names
MaxHeaders == 3

HeaderNames ==
  {<<"A">>,
   <<"B">>,
   <<"C", "i", "t", "y">>,
   <<"X">>,
   <<"L", "a", "t">>,
   <<"L", "O", "N", "G">>,
   <<"C", "o", "o", "r", "d", "s">>,
   <<"l", "n", "g">>}

HeaderLists == SeqsUpTo(HeaderNames, MaxHeaders)

InitFallback ==
  /\ ComponentIdle
  /\ \E headers \in HeaderLists :
       call = [fn |-> "fallbackMapping", headers |-> headers, done |-> FALSE, result |-> NULL]

callFallbackMapping ==
  /\ call.fn = "fallbackMapping"
  /\ ~call.done
  /\ call' = [call EXCEPT !.done = TRUE, !.result = fallbackMapping(call.headers)]
  /\ UNCHANGED <<state, insights, loads, nLoads, apiKey>>

NextFallback == callFallbackMapping

SpecFallback == InitFallback /\ [][NextFallback]_vars

(***************************************************************************)
(* The cluster glyph of MapDisplay (src/components/MapDisplay.tsx).        *)
(* Sums are exact integers of hundredths; the highlight texts of the model *)
(* have at most two decimals and values whose binary sums are exact.       *)
(***************************************************************************)
MaxMarkers == 3

\* Object.keys(point.data).find(k => k.toLowerCase() === 'latento')
latentoKey(keys) ==
  find(keys, {i \in 1..Len(keys) : toLowerCase(keys[i]) = <<"l", "a", "t", "e", "n", "t", "o">>})

\* latentoKey ? String(point.data[latentoKey]) : ''
latentoValue(point, keys) ==
  IF latentoKey(keys) = UNDEFINED THEN <<>> ELSE CellText(point.data, latentoKey(keys))

\* the number a parsed value adds to totalLatento, in hundredths
Centi(n) ==
  LET f == [i \in 1..2 |-> IF i <= Len(n.fr) THEN DigitVal(n.fr[i]) ELSE 0]
      m == 100 * n.ip + 10 * f[1] + f[2]
  IN IF n.neg THEN 0 - m ELSE m

\* the number read from the latentoValue of a marker, NULL when none is read
markerNumber(val) ==
  IF val = <<>> THEN NULL ELSE parseFloat(stripNonNumeric(val))

\* markerCounts with if (num) in place of if (!isNaN(num))
markerCountsNonZero(num) == num # NULL /\ ~IsZero(num)

\* if (!isNaN(num)): the marker is added and sets hasNumericValue
markerCounts(num) == num # NULL

\* markers.forEach: totalLatento and hasNumericValue
RECURSIVE forEachMarker(_, _)
forEachMarker(vals, acc) ==
  IF vals = <<>> THEN acc
  ELSE LET num == markerNumber(Head(vals))
       IN forEachMarker(Tail(vals),
            IF markerCounts(num)
            THEN [totalLatento |-> acc.totalLatento + Centi(num), hasNumericValue |-> TRUE]
            ELSE acc)

\* total.toFixed(1): the nearest number of tenths, a tie taken away from zero
toFixed1(centi) ==
  LET a == IF centi < 0 THEN 0 - centi ELSE centi
  IN [kind |-> "toFixed1", neg |-> centi < 0, tenths |-> (a + 5) \div 10]

\* displayValue of iconCreateFunction
displayValue(vals) ==
  LET acc == forEachMarker(vals, [totalLatento |-> 0, hasNumericValue |-> FALSE])
  IN IF acc.hasNumericValue
     THEN IF acc.totalLatento % 100 = 0
          THEN [kind |-> "number", centi |-> acc.totalLatento]
          ELSE toFixed1(acc.totalLatento)
     ELSE [kind |-> "number", centi |-> 100 * Len(vals)]

\* the highlight texts of the markers of a cluster and the key lists of rows
HighlightTexts ==
  {<<"1", "0", "k", "g">>,
   <<"5", "k", "g">>,
   <<"b", "a", "d">>,
   <<>>,
   <<"0">>,
   <<"-", "5">>,
   <<"0", ".", "2", "5">>,
   <<"1", ".", "5">>}

KeyLists ==
  {<<<<"L", "a", "t", "e", "n", "t", "o">>>>,
   <<<<"n", "a", "m", "e">>, <<"L", "A", "T", "E", "N", "T", "O">>>>,
   <<<<"n", "a", "m", "e">>>>}

ClusterTexts == {t \in SeqsUpTo(HighlightTexts, MaxMarkers) : Len(t) >= 2}

InitCluster ==
  /\ ComponentIdle
  /\ \E keys \in KeyLists : \E texts \in ClusterTexts :
       call = [fn |-> "iconCreateFunction",
               keys |-> keys,
               points |-> [i \in 1..Len(texts) |-> [data |-> [k \in Range(keys) |-> texts[i]]]],
               done |-> FALSE,
               result |-> NULL]

callIconCreateFunction ==
  /\ call.fn = "iconCreateFunction"
  /\ ~call.done
  /\ call' = [call EXCEPT !.done = TRUE,
                          !.result = displayValue([i \in 1..Len(call.points) |->
                                                     latentoValue(call.points[i], call.keys)])]
  /\ UNCHANGED <<state, insights, loads, nLoads, apiKey>>

NextCluster == callIconCreateFunction

SpecCluster == InitCluster /\ [][NextCluster]_vars

(***************************************************************************)
(* Properties.                                                             *)
(***************************************************************************)
\* the value of a number in thousandths (numbers of at most 3 decimals)
Milli(n) ==
  LET f == [i \in 1..3 |-> IF i <= Len(n.fr) THEN DigitVal(n.fr[i]) ELSE 0]
      m == 1000 * n.ip + 100 * f[1] + 10 * f[2] + f[3]
  IN IF n.neg THEN 0 - m ELSE m

ValidPair(lat, lng) ==
  /\ Milli(lat) >= 0 - 90000
  /\ Milli(lat) <= 90000
  /\ Milli(lng) >= 0 - 180000
  /\ Milli(lng) <= 180000
  /\ ~(Milli(lat) = 0 /\ Milli(lng) = 0)

\* C1: in every reachable state of the component every point of state.points
\* has -90 <= lat <= 90, -180 <= lng <= 180 and is not the origin (0, 0)
C1_PointsValid ==
  \A i \in 1..Len(state.points) : ValidPair(state.points[i].lat, state.points[i].lng)

\* C1 witness: after swapMapping the rows whose latitude would exceed 90 are
\* dropped and the others plotted
C1_Witness ==
  /\ Len(state.sheetData) = 11
  /\ state.mapping = [latColumn |-> <<"l", "n", "g">>, lngColumn |-> <<"l", "a", "t">>]
  /\ Len(state.points) = 9

IsHeader(col, headers) == \E i \in 1..Len(headers) : headers[i] = col

\* C2: when a load completes with a header list of at least two entries, the
\* stored mapping names two members of headers, whatever the inference
\* service returned
C2_HintRevalidated ==
  [][(state.isLoading /\ ~state'.isLoading /\ state'.error = NULL
        /\ Len(state'.headers) >= 2)
       => /\ state'.mapping # NULL
          /\ IsHeader(state'.mapping.latColumn, state'.headers)
          /\ IsHeader(state'.mapping.lngColumn, state'.headers)]_vars

DualCall ==
  /\ call.fn = "processPoints"
  /\ call.done
  /\ call.mapping # NULL
  /\ call.mapping.latColumn \notin {<<>>, UNDEFINED}
  /\ call.mapping.lngColumn \notin {<<>>, UNDEFINED}
  /\ call.mapping.latColumn # call.mapping.lngColumn

RowKept(row, points) == \E i \in 1..Len(points) : points[i].data = row

\* C3: in two-column mode processPoints keeps a row if and only if both cells
\* parse and the pair is in range (boundaries included) and is not (0, 0)
C3_KeepIffValid ==
  DualCall =>
    \A i \in 1..Len(call.rows) :
      LET row == call.rows[i]
          lat == cleanAndParse(CellText(row, call.mapping.latColumn))
          lng == cleanAndParse(CellText(row, call.mapping.lngColumn))
      IN RowKept(row, call.result) <=> (lat # NULL /\ lng # NULL /\ ValidPair(lat, lng))

\* C3 witness: a row ("0", "0") is dropped although both cells parse, and the
\* row ("0", "180"), one coordinate 0 and the other on the boundary, is kept
C3_Witness ==
  /\ DualCall
  /\ call.mapping = [latColumn |-> HeaderLat, lngColumn |-> HeaderLng]
  /\ Len(call.rows) = 2
  /\ call.rows[1][HeaderLat] = <<"0">> /\ call.rows[1][HeaderLng] = <<"0">>
  /\ call.rows[2][HeaderLat] = <<"0">> /\ call.rows[2][HeaderLng] = <<"1", "8", "0">>
  /\ Len(call.result) = 1
  /\ call.result[1].data = call.rows[2]

ParsedCall == call.fn = "cleanAndParse" /\ call.done

HemisphereOrPrefix(t) ==
  \/ \E i \in 1..Len(t) : t[i] \in {"S", "W"}
  \/ (Len(t) >= 1 /\ t[1] = "-")

\* C4: the sign of a parsed coordinate is negative exactly when the trimmed
\* upper-cased text contains S or W or starts with '-'; its magnitude is that
\* of the number read from the cleaned text
C4_SignRule ==
  (ParsedCall /\ call.result # NULL) =>
    LET t == toUpperCase(trim(call.arg))
        n == parseFloat(stripNonNumeric(localeNormalize(t)))
    IN /\ call.result.neg = HemisphereOrPrefix(t)
       /\ call.result.ip = n.ip
       /\ call.result.fr = n.fr

\* C4 witness: a minus sign after a letter does not make the result negative
C4_Witness ==
  /\ ParsedCall
  /\ call.arg = <<"a", "-", "1">>
  /\ call.result = [neg |-> FALSE, ip |-> 1, fr |-> <<>>]

WithoutCommas(t) == SelectSeq(t, LAMBDA c : c # ",")

CommaToPeriod(t) == [i \in 1..Len(t) |-> IF t[i] = "," THEN "." ELSE t[i]]

Magnitude(x) == IF x = NULL THEN NULL ELSE [ip |-> x.ip, fr |-> x.fr]

\* C5: a text with exactly one comma and no period parses as the text with the
\* comma written as a period ("48,85" gives 48.85); in any other text no comma
\* acts as a decimal point: the number read is the one read from the text with
\* its commas removed
C5_DecimalComma ==
  ParsedCall =>
    LET t == trim(call.arg)
        commas == Cardinality({i \in 1..Len(t) : t[i] = ","})
        periods == Cardinality({i \in 1..Len(t) : t[i] = "."})
    IN /\ (commas = 1 /\ periods = 0) => call.result = cleanAndParse(CommaToPeriod(t))
       /\ ~(commas = 1 /\ periods = 0)
            => Magnitude(call.result) = Magnitude(cleanAndParse(WithoutCommas(t)))
       /\ call.arg = <<"4", "8", ",", "8", "5">>
            => call.result = [neg |-> FALSE, ip |-> 48, fr |-> <<"8", "5">>]

\* C5 witness: two commas are removed, not read as a decimal point
C5_Witness ==
  /\ ParsedCall
  /\ call.arg = <<"4", "8", ",", "8", "5", ",", "1", "2">>
  /\ call.result = [neg |-> FALSE, ip |-> 488512, fr |-> <<>>]

CombinedCall ==
  /\ call.fn = "processPoints"
  /\ call.done
  /\ call.mapping # NULL
  /\ call.mapping.latColumn \notin {<<>>, UNDEFINED}
  /\ call.mapping.latColumn = call.mapping.lngColumn

DelimiterAt(c, i) == c[i] \in {",", ";"}

\* the positions of the delimiters of c, and Len(c) + 1
Cuts(c) == {i \in 1..Len(c) : DelimiterAt(c, i)} \cup {Len(c) + 1}

Least(S) == CHOOSE x \in S : \A y \in S : x <= y

\* C6: in combined-column mode a cell without delimiter yields no point;
\* otherwise lat is read from the text before the first delimiter and lng from
\* the text between the first delimiter and the next one (or the end), and the
\* row is plotted with exactly these values when they are a valid pair
C6_CombinedSplit ==
  CombinedCall =>
    \A i \in 1..Len(call.rows) :
      LET row == call.rows[i]
          c == CellText(row, call.mapping.latColumn)
          d1 == Least(Cuts(c))
          d2 == Least(Cuts(c) \ {d1})
          lat == cleanAndParse(SubSeq(c, 1, d1 - 1))
          lng == cleanAndParse(SubSeq(c, d1 + 1, d2 - 1))
      IN IF d1 = Len(c) + 1 \/ lat = NULL \/ lng = NULL
         THEN ~RowKept(row, call.result)
         ELSE IF ValidPair(lat, lng)
              THEN /\ RowKept(row, call.result)
                   /\ \A k \in 1..Len(call.result) :
                        call.result[k].data = row
                          => call.result[k].lat = lat /\ call.result[k].lng = lng
              ELSE ~RowKept(row, call.result)

\* C6 witness: the cell "40.7;-74.0" gives the point (40.7, -74.0), and a cell
\* with a single part gives none
C6_Witness ==
  /\ CombinedCall
  /\ call.mapping.latColumn = HeaderLat
  /\ Len(call.rows) = 2
  /\ call.rows[1][HeaderLat] = <<"4", "0", ".", "7", ";", "-", "7", "4", ".", "0">>
  /\ call.rows[2][HeaderLat] = <<"9", "1">>
  /\ Len(call.result) = 1
  /\ call.result[1].lat = [neg |-> FALSE, ip |-> 40, fr |-> <<"7">>]
  /\ call.result[1].lng = [neg |-> TRUE, ip |-> 74, fr |-> <<>>]

Unset(m) ==
  \/ m = NULL
  \/ m.latColumn \in {<<>>, UNDEFINED}
  \/ m.lngColumn \in {<<>>, UNDEFINED}

\* C7: with a null mapping, an empty or missing column name, or no rows, no
\* point is produced; updateMapping on a null mapping sets the chosen side,
\* leaves the other column empty and produces no point
C7_UnconfiguredInert ==
  [][/\ (Unset(state'.mapping) \/ state'.sheetData = <<>>) => state'.points = <<>>
     /\ (~state.isLoading /\ state.mapping = NULL /\ state'.mapping # NULL)
          => /\ state'.points = <<>>
             /\ \/ /\ IsHeader(state'.mapping.latColumn, state.headers)
                   /\ state'.mapping.lngColumn = <<>>
                \/ /\ IsHeader(state'.mapping.lngColumn, state.headers)
                   /\ state'.mapping.latColumn = <<>>]_vars

\* C7 witness: rows are loaded, the mapping was null and updateMapping('lat')
\* has set one side only
C7_Witness ==
  /\ Len(state.sheetData) > 0
  /\ state.mapping # NULL
  /\ IsHeader(state.mapping.latColumn, state.headers)
  /\ state.mapping.lngColumn = <<>>
  /\ state.points = <<>>

PointsCall == call.fn = "processPoints" /\ call.done

\* C8: the points are an order-preserving subsequence of the rows: there is a
\* strictly increasing map from the points to the rows they carry as data, so
\* there are never more points than rows
C8_OrderedSubsequence ==
  PointsCall =>
    /\ Len(call.result) <= Len(call.rows)
    /\ \E f \in [1..Len(call.result) -> 1..Len(call.rows)] :
         /\ \A i, j \in 1..Len(call.result) : i < j => f[i] < f[j]
         /\ \A i \in 1..Len(call.result) : call.result[i].data = call.rows[f[i]]

\* C8 witness: two different rows are both plotted
C8_Witness ==
  /\ PointsCall
  /\ Len(call.rows) = 2
  /\ call.rows[1] # call.rows[2]
  /\ Len(call.result) = 2

HasSubstring(l, sub) ==
  \E i \in 1..Len(l) :
    \A k \in 1..Len(sub) : i + k - 1 <= Len(l) /\ l[i + k - 1] = sub[k]

CoordsNames ==
  {<<"c", "o", "o", "r", "d", "i", "n", "a", "t", "e", "s">>, <<"c", "o", "o", "r", "d", "s">>}

LatName(h) ==
  LET l == toLowerCase(h)
  IN HasSubstring(l, <<"l", "a", "t">>) \/ HasSubstring(l, <<"y">>) \/ l \in CoordsNames

LngName(h) ==
  LET l == toLowerCase(h)
  IN \/ HasSubstring(l, <<"l", "n", "g">>)
     \/ HasSubstring(l, <<"l", "o", "n", "g">>)
     \/ HasSubstring(l, <<"x">>)
     \/ l \in CoordsNames

FallbackCall == call.fn = "fallbackMapping" /\ call.done

\* C9: fallbackMapping gives the first header matching the latitude names, else
\* headers[0], and the first header matching the longitude names, else
\* headers[1]; with two or more headers both names are headers, and
\* ["A", "B"] gives lat "A", lng "B"
C9_FallbackMapping ==
  FallbackCall =>
    LET h == call.headers
        latIdx == {i \in 1..Len(h) : LatName(h[i])}
        lngIdx == {i \in 1..Len(h) : LngName(h[i])}
    IN /\ latIdx # {} => call.result.latColumn = h[Least(latIdx)]
       /\ (latIdx = {} /\ Len(h) >= 1) => call.result.latColumn = h[1]
       /\ lngIdx # {} => call.result.lngColumn = h[Least(lngIdx)]
       /\ (lngIdx = {} /\ Len(h) >= 2) => call.result.lngColumn = h[2]
       /\ Len(h) >= 2 => /\ IsHeader(call.result.latColumn, h)
                         /\ IsHeader(call.result.lngColumn, h)
       /\ h = <<<<"A">>, <<"B">>>>
            => call.result = [latColumn |-> <<"A">>, lngColumn |-> <<"B">>]

\* C9 witness: no header of ["A", "B"] matches and the positions decide
C9_Witness ==
  /\ FallbackCall
  /\ call.headers = <<<<"A">>, <<"B">>>>
  /\ call.result = [latColumn |-> <<"A">>, lngColumn |-> <<"B">>]

\* the index of the first row whose cell in column has the text v
FirstRow(rows, column, v) ==
  Least({i \in 1..Len(rows) : CellText(rows[i], column) = v})

\* C10: a style selection with a non-empty column builds a colorMap whose keys
\* are the distinct texts of the column over the loaded rows, the n-th distinct
\* text in first-occurrence order mapped to PALETTE[n mod |PALETTE|]
C10_RoundRobinColors ==
  [][(state'.styleConfig # state.styleConfig /\ state'.styleConfig.rule # NULL)
       => LET rule == state'.styleConfig.rule
              rows == state.sheetData
              keys == {CellText(rows[i], rule.column) : i \in 1..Len(rows)}
          IN /\ state'.styleConfig.activeColumn = rule.column
             /\ DOMAIN rule.colorMap = keys
             /\ \A v \in keys :
                  LET n == Cardinality({w \in keys :
                             FirstRow(rows, rule.column, w) < FirstRow(rows, rule.column, v)})
                  IN rule.colorMap[v] = PALETTE[(n % Len(PALETTE)) + 1]]_vars

\* C10 witness: the column has more distinct texts than the palette has
\* colors, and the eleventh shares the color of the first
C10_Witness ==
  /\ state.styleConfig.rule # NULL
  /\ state.styleConfig.rule.column = <<"l", "n", "g">>
  /\ Cardinality(DOMAIN state.styleConfig.rule.colorMap) > Len(PALETTE)
  /\ state.styleConfig.rule.colorMap[<<"1", "1", "0">>] = state.styleConfig.rule.colorMap[<<"1", "0">>]
  /\ state.styleConfig.rule.colorMap[<<"1", "0">>] = PALETTE[1]
  /\ state.styleConfig.rule.colorMap[<<"2", "0">>] = PALETTE[2]

ClusterCall == call.fn = "iconCreateFunction" /\ call.done

\* the highlight text of member i of the cluster: the cell of the first key
\* that is "latento" without regard to case, no text when there is none
MemberText(i) ==
  LET hits == {k \in 1..Len(call.keys) :
                 toLowerCase(call.keys[k]) = <<"l", "a", "t", "e", "n", "t", "o">>}
  IN IF hits = {} THEN <<>> ELSE call.points[i].data[call.keys[Least(hits)]]

MemberNumber(i) == parseFloat(SelectSeq(MemberText(i), IsNumericChar))

ParsedMembers == {i \in 1..Len(call.points) : MemberNumber(i) # NULL}

RECURSIVE SumCenti(_)
SumCenti(S) ==
  IF S = {} THEN 0
  ELSE LET i == CHOOSE x \in S : TRUE
       IN Centi(MemberNumber(i)) + SumCenti(S \ {i})

\* the number shown, in hundredths
DisplayCenti(d) ==
  IF d.kind = "number" THEN d.centi
  ELSE IF d.neg THEN 0 - 10 * d.tenths ELSE 10 * d.tenths

\* C11 as stated: with a parsed member the display value is the sum of the
\* parsed members, otherwise the number of points of the cluster
C11_DisplayIsSum ==
  ClusterCall =>
    IF ParsedMembers # {}
    THEN DisplayCenti(call.result) = SumCenti(ParsedMembers)
    ELSE DisplayCenti(call.result) = 100 * Len(call.points)

\* C11 amended: with a parsed member the display value is the sum of exactly
\* the parsed members when that sum is an integer (0 included), and that sum
\* rounded to one decimal place otherwise; with no parsed member it is the
\* number of points of the cluster
C11_DisplayIsRoundedSum ==
  ClusterCall =>
    LET sum == SumCenti(ParsedMembers)
        a == IF sum < 0 THEN 0 - sum ELSE sum
    IN IF ParsedMembers = {}
       THEN call.result = [kind |-> "number", centi |-> 100 * Len(call.points)]
       ELSE IF sum % 100 = 0
            THEN call.result = [kind |-> "number", centi |-> sum]
            ELSE /\ call.result.kind = "toFixed1"
                 /\ call.result.neg = (sum < 0)
                 /\ 10 * call.result.tenths - a <= 5
                 /\ a - 10 * call.result.tenths < 5

\* C11 witness: the values "10kg", "5kg", "bad" give 15
C11_Witness ==
  /\ ClusterCall
  /\ call.keys = <<<<"n", "a", "m", "e">>, <<"L", "A", "T", "E", "N", "T", "O">>>>
  /\ Len(call.points) = 3
  /\ MemberText(1) = <<"1", "0", "k", "g">>
  /\ MemberText(2) = <<"5", "k", "g">>
  /\ MemberText(3) = <<"b", "a", "d">>
  /\ call.result = [kind |-> "number", centi |-> 1500]

\* the mapping of the heuristic for a header list: first matching header of
\* each side, else the first and the second header
HeuristicMapping(h) ==
  LET latIdx == {i \in 1..Len(h) : LatName(h[i])}
      lngIdx == {i \in 1..Len(h) : LngName(h[i])}
  IN [latColumn |-> IF latIdx # {} THEN h[Least(latIdx)]
                    ELSE IF Len(h) >= 1 THEN h[1] ELSE UNDEFINED,
      lngColumn |-> IF lngIdx # {} THEN h[Least(lngIdx)]
                    ELSE IF Len(h) >= 2 THEN h[2] ELSE UNDEFINED]

\* C12: when the inference call fails after the table was fetched, the load
\* completes with the heuristic mapping of the headers, the points resolved
\* with it, isLoading false and error null
C12_InferenceFailureFallsBack ==
  [][\A l \in loads :
       identifyFailed(l) =>
         /\ ~state'.isLoading
         /\ state'.error = NULL
         /\ state'.headers = l.headers
         /\ state'.sheetData = l.rows
         /\ state'.mapping = HeuristicMapping(l.headers)
         /\ state'.points = processPoints(l.rows, HeuristicMapping(l.headers))]_vars

\* C12 witness: with a key, the one-column table is loaded with the heuristic
\* mapping (A, undefined), which no hint of the service gives
C12_Witness ==
  /\ apiKey
  /\ ~state.isLoading
  /\ state.error = NULL
  /\ state.headers = <<<<"A">>>>
  /\ Len(state.sheetData) = 1
  /\ state.mapping = [latColumn |-> <<"A">>, lngColumn |-> UNDEFINED]

\* C13: once the table of a load is fetched, the load eventually completes
\* (isLoading false), whether or not the inference service responds
C13_LoadEventuallyCompletes ==
  (\E l \in loads : l.pc = "identify") ~> ~state.isLoading

\* C14: selecting the empty column sets activeColumn and rule to null whatever
\* the rule was, every point is then drawn in the default color, and points,
\* mapping, sheetData and headers are unchanged
C14_ClearStyle ==
  [][handleApplyStyle(<<>>) =>
       /\ state'.styleConfig.activeColumn = NoColumn
       /\ state'.styleConfig.rule = NULL
       /\ \A i \in 1..Len(state'.points) :
            getMarkerColor(state'.points[i], state'.styleConfig) = DEFAULT_COLOR
       /\ state'.points = state.points
       /\ state'.mapping = state.mapping
       /\ state'.sheetData = state.sheetData
       /\ state'.headers = state.headers]_vars

\* C14 witness: no rule is active while points are plotted and a second load
\* has completed
C14_Witness ==
  /\ state.styleConfig = [activeColumn |-> NoColumn, rule |-> NULL]
  /\ Len(state.points) = 11
  /\ nLoads = 2

\* a mapping edit: the mapping changes while isLoading stays as it is
MappingEdited == state'.mapping # state.mapping /\ state'.isLoading = state.isLoading

\* C15: state.points is always processPoints(state.sheetData, state.mapping),
\* and a mapping edit changes nothing but mapping and points and starts no
\* fetch
C15_PointsFollowMapping ==
  /\ [](state.points = processPoints(state.sheetData, state.mapping))
  /\ [][MappingEdited =>
          /\ state'.sheetData = state.sheetData
          /\ state'.headers = state.headers
          /\ state'.styleConfig = state.styleConfig
          /\ state'.error = state.error
          /\ loads' = loads
          /\ nLoads' = nLoads]_vars

\* C15 witness: both sides set to column B, the one row is plotted from it
C15_Witness ==
  /\ Len(state.sheetData) = 1
  /\ state.mapping = [latColumn |-> <<"B">>, lngColumn |-> <<"B">>]
  /\ Len(state.points) = 1
  /\ state.points[1].lng = [neg |-> FALSE, ip |-> 9, fr |-> <<>>]

\* C16: in every settled state with an active rule, its colorMap is the
\* assignment computed from the current state.sheetData for rule.column
C16_RuleCurrent ==
  (~state.isLoading /\ state.error = NULL /\ state.styleConfig.rule # NULL)
    => state.styleConfig.rule.colorMap
         = buildColorMap(state.sheetData, state.styleConfig.rule.column)

\* C17: while isLoading, points and sheetData are empty and the mapping is null
\* or gives no points; the step that starts a load clears rows, points,
\* mapping and error, and a failed fetch leaves isLoading false, the error set
\* and points and sheetData empty
C17_LoadingShowsNothing ==
  /\ [](state.isLoading =>
          /\ state.points = <<>>
          /\ state.sheetData = <<>>
          /\ (state.mapping = NULL \/ processPoints(state.sheetData, state.mapping) = <<>>))
  /\ [][/\ (~state.isLoading /\ state'.isLoading) =>
             /\ state'.points = <<>>
             /\ state'.sheetData = <<>>
             /\ state'.mapping = NULL
             /\ state'.error = NULL
        /\ (state.isLoading /\ ~state'.isLoading /\ state'.error # NULL) =>
             /\ state'.points = <<>>
             /\ state'.sheetData = <<>>]_vars

\* C17 witness: a second load is in progress after a table with two headers
\* was shown, and nothing of it is left
C17_Witness ==
  /\ state.isLoading
  /\ nLoads = 2
  /\ Len(state.headers) = 2
  /\ state.points = <<>>
  /\ state.sheetData = <<>>

\* C18: insights that are shown were computed from the rows of the load
\* started last
C18_InsightsCurrent == insights # NULL => insights.load = nLoads

====
